---- MODULE Spec2Model ----
(***************************************************************************)
(* Model of the multi-stage job pipeline of the YouTube automation         *)
(* workers: the job store (supabase_client.py), the poll loop and the      *)
(* concurrency manager (base_worker.py) and the four stage processors      *)
(* (worker_script.py, worker_voiceover.py, worker_video.py,                *)
(* worker_youtube.py).  One step of the model is one operation on the job  *)
(* store together with the local computation that follows it, so that the  *)
(* interleavings of worker processes and of their job threads are those of *)
(* the store operations.                                                    *)
(***************************************************************************)
EXTENDS Integers, Sequences, FiniteSets, TLC

\* ---------------------------------------------------------------- bounds

\* Largest number of job rows in the store.
MaxJobs == 3

\* Largest number of worker processes started.
NumWorkers == 2

\* Largest value the WORKER_MAX_CONCURRENT_JOBS setting is drawn from.
MaxConfigured == 2

\* Number of heartbeats a worker sends in the time a behaviour covers.
MaxHeartbeats == 1

\* ------------------------------------------------------------- constants

\* get_pending_jobs(limit=WORKER_MAX_CONCURRENT_JOBS * 10)
FetchFactor == 10

\* Counters are kept up to this number.
MaxCount == 2

Count(n) == IF n < MaxCount THEN n + 1 ELSE n

\* Python's None (an absent key, a null column).
None == "None"

\* The action string each worker's main() passes to run().
Actions == {"generate_script", "generate_voiceover", "create_video", "post_to_youtube"}

\* Values of a text column: null, the empty string, and two non-empty
\* values: "v1", and "v2" for any value that replaced a non-empty one.
Values == {None, "", "v1", "v2"}

\* A voiceover_url or video_url as older versions stored it: the URL of an
\* uploaded file, where save_voiceover_path and save_video_path now store
\* the path of a local file ("v1", "v2").
Url == "https://"

\* url.startswith('http://') or url.startswith('https://')
IsUrl(x) == x = Url

\* Python truthiness of a column value: `not job.get(f)`.
Falsy(x) == x \in {None, ""}

\* The value a generator's new output (a generated text, a file name built
\* from a timestamp and a uuid4, a new video id) has when it is stored over
\* x: it differs from a non-empty value it replaces.
Fresh(x) == IF Falsy(x) THEN "v1" ELSE "v2"

\* job.get("metadata", {}) of a job created without routing keys.
EmptyMetadata ==
  [action_needed |-> None, original_action |-> None,
   missing_dependencies |-> <<>>, sub_status |-> None, heartbeat |-> None]

VARIABLES
  store,           \* video_jobs table: job id -> row, ids in creation order
  youtube_videos,  \* youtube_videos table: number of records per job
  config,          \* worker -> the WORKER_MAX_CONCURRENT_JOBS its process read
  action,          \* worker -> the action_needed its main() runs with
  wpc,             \* worker -> position of its run() loop
  beats,           \* worker -> number of heartbeats it has sent
  hb,              \* worker -> the heartbeat's snapshot of a row, <<>> when none
  all_jobs,        \* worker -> candidates of this cycle not yet examined
  ready_jobs,      \* worker -> jobs claimed in this cycle
  available_slots, \* worker -> slots computed at the start of the cycle
  active_jobs,     \* worker -> ids of the jobs in flight
  tpc,             \* worker -> job -> position of the job's thread
  current_metadata,\* worker -> job -> the thread's local metadata dict
  submitted,       \* job -> the routing metadata it was submitted with
  store_errors,    \* the store operations that have raised an error
  temp_dirs,       \* worker -> the temporary directories of its process
  update_data      \* worker -> job -> the update a call of update_job_status
                   \* has built and not yet executed, <<>> when none

vars == <<store, youtube_videos, config, action, wpc, beats, hb, all_jobs, ready_jobs,
          available_slots, active_jobs, tpc, current_metadata, submitted,
          store_errors, temp_dirs, update_data>>

wvars == <<wpc, beats, hb, all_jobs, ready_jobs, available_slots>>
tvars == <<tpc, current_metadata>>
envvars == <<config, action, submitted, store_errors, update_data>>

\* The ids of the rows of video_jobs, and the worker processes started.
Jobs == DOMAIN store
Workers == DOMAIN action

\* ------------------------------------------------------------- job store

\* SupabaseClient.get_pending_jobs: rows with status pending, oldest first,
\* at most `limit` of them.  Job ids are in creation order.
RECURSIVE PendingFrom(_, _)
PendingFrom(j, limit) ==
  IF j \notin Jobs \/ limit <= 0 THEN <<>>
  ELSE IF store[j].status = "pending"
       THEN <<[id |-> j, row |-> store[j]]>> \o PendingFrom(j + 1, limit - 1)
       ELSE PendingFrom(j + 1, limit)

get_pending_jobs(limit) == PendingFrom(1, limit)

\* SupabaseClient.get_all_jobs(limit=1): the most recently created row.
get_all_jobs == [id |-> Cardinality(Jobs), row |-> store[Cardinality(Jobs)]]

\* SupabaseClient.update_job_status: the row after the update.  `status`
\* None leaves the status; a status other than pending comes with a
\* started_at when the row has none; a status of completed or failed comes
\* with a new completed_at; `error_message` is written only when truthy; `updates` is
\* a record of further columns, merged last.  The update is filtered by id
\* alone.
RowUpdate(row, status, error_message, updates) ==
  LET rs == IF status \notin {None, "pending"} /\ "started_at" \notin DOMAIN updates
                 /\ row.started_at = 0
            THEN [row EXCEPT !.started_at = Count(@)] ELSE row
      r0 == IF status \in {"completed", "failed"}
            THEN [rs EXCEPT !.completed_at = Count(@)] ELSE rs
      r1 == IF status # None THEN [r0 EXCEPT !.status = status] ELSE r0
      r2 == IF ~Falsy(error_message)
            THEN [r1 EXCEPT !.error_message = error_message] ELSE r1
  IN  [f \in DOMAIN r2 |-> IF f \in DOMAIN updates THEN updates[f] ELSE r2[f]]

\* The store after update_job_status(job_id, ...).
update_job_status(job_id, status, error_message, updates) ==
  [store EXCEPT ![job_id] = RowUpdate(store[job_id], status, error_message, updates)]

\* update_job_status, lines 50-72, in a call update_job_status(job_id,
\* status): update_data is built.  For a status other than pending the row
\* is read with get_job, and a started_at joins update_data when the row
\* read has none; a status of completed or failed adds a completed_at.
UpdateBuild(w, j, status) ==
  /\ update_data[w][j] = <<>>
  /\ update_data' = [update_data EXCEPT ![w][j] =
                       <<[status |-> status,
                          started_at |-> status # "pending" /\ store[j].started_at = 0]>>]
  /\ UNCHANGED <<store, youtube_videos, config, action, submitted, store_errors,
                 temp_dirs, wpc, beats, hb, all_jobs, ready_jobs, available_slots,
                 active_jobs, tpc, current_metadata>>

\* update_job_status, lines 74-79: the update is executed on the row as it
\* is now, a later store operation than the read.  A started_at in
\* update_data is a new timestamp for the column.
UpdateExecute(w, j) ==
  /\ update_data[w][j] # <<>>
  /\ LET data == Head(update_data[w][j])
         started_at == IF data.started_at THEN Count(store[j].started_at)
                       ELSE store[j].started_at
     IN  store' = update_job_status(j, data.status, None, [started_at |-> started_at])
  /\ update_data' = [update_data EXCEPT ![w][j] = <<>>]
  /\ UNCHANGED <<youtube_videos, config, action, submitted, store_errors,
                 temp_dirs, wpc, beats, hb, all_jobs, ready_jobs, available_slots,
                 active_jobs, tpc, current_metadata>>

\* update_job_status's return value, len(result.data) > 0: the row exists.
Updated(job_id) == job_id \in Jobs

\* ----------------------------------------------------- dependency checks

\* A script check that also looks at what a processor wrote to the metadata.
ScriptMissingWhileProcessed(job) ==
  IF Falsy(job.topic) \/ job.metadata.sub_status # None THEN <<"topic">> ELSE <<>>

\* ScriptWorker.check_dependencies: the missing list.
ScriptMissing(job) ==
  IF Falsy(job.topic) THEN <<"topic">> ELSE <<>>

\* VoiceoverWorker.check_dependencies: the missing list.
VoiceoverMissing(job) ==
  IF Falsy(job.script) THEN <<"script">> ELSE <<>>

\* A video check that forgets the voiceover.
VideoMissingScriptOnly(job) ==
  IF Falsy(job.script) THEN <<"script">> ELSE <<>>

\* VideoWorker.check_dependencies: the missing list.
VideoMissing(job) ==
  (IF Falsy(job.script) THEN <<"script">> ELSE <<>>)
  \o (IF Falsy(job.voiceover_url) THEN <<"voiceover_url">> ELSE <<>>)

\* A publish check that tests the description as it tests the other fields.
YouTubeMissingEmptyDescription(job) ==
  (IF Falsy(job.title) THEN <<"title">> ELSE <<>>)
  \o (IF Falsy(job.description) THEN <<"description">> ELSE <<>>)
  \o (IF Falsy(job.video_url) THEN <<"video_url">> ELSE <<>>)

\* YouTubeWorker.check_dependencies: the missing list.  The description
\* may be the empty string; it is missing only when it is None.
YouTubeMissing(job) ==
  (IF Falsy(job.title) THEN <<"title">> ELSE <<>>)
  \o (IF job.description = None THEN <<"description">> ELSE <<>>)
  \o (IF Falsy(job.video_url) THEN <<"video_url">> ELSE <<>>)

\* check_dependencies of the worker class started with action `a`:
\* <<is_ready, missing>>.
check_dependencies(a, job) ==
  LET missing == CASE a = "generate_script" -> ScriptMissing(job)
                   [] a = "generate_voiceover" -> VoiceoverMissing(job)
                   [] a = "create_video" -> VideoMissing(job)
                   [] OTHER -> YouTubeMissing(job)
  IN  <<Len(missing) = 0, missing>>

\* f"Missing dependencies: {', '.join(missing)}": a non-empty message.
MissingMessage(missing) == "Missing dependencies"

\* --------------------------------------------------------------- claiming

\* The processing_status dict of BaseWorker.get_pending_jobs, with its
\* .get(action_needed, "pending") default.
processing_status(action_needed) ==
  CASE action_needed = "generating_script" -> "generating_script"
    [] action_needed = "generate_voiceover" -> "creating_voiceover"
    [] action_needed = "create_video" -> "rendering_video"
    [] action_needed = "post_to_youtube" -> "uploading"
    [] OTHER -> "pending"

\* A routing test that also takes the auto-chain sentinel for a match.
should_process_chain(row, action_needed) ==
  /\ row.status = "pending"
  /\ row.metadata.action_needed \in {action_needed, "run_all"}

\* should_process: the routing test of get_pending_jobs on a fetched job.
should_process(row, action_needed) ==
  row.status = "pending" /\ row.metadata.action_needed = action_needed

\* What the loop of get_pending_jobs uses of a fetched job: its id, its
\* metadata and the verdict of check_dependencies on it.
Snapshot(c, action_needed) ==
  [id |-> c.id, metadata |-> c.row.metadata,
   dependencies |-> check_dependencies(action_needed, c.row)]

\* The fetched jobs the loop of get_pending_jobs goes on to examine.
Candidates(fetched, action_needed) ==
  LET routed == SelectSeq(fetched, LAMBDA c : should_process(c.row, action_needed))
  IN  [i \in 1..Len(routed) |-> Snapshot(routed[i], action_needed)]

\* Python's seq[:n] for n >= 0.
Prefix(seq, n) == SubSeq(seq, 1, IF n < Len(seq) THEN n ELSE Len(seq))

\* max_concurrent = max(1, WORKER_MAX_CONCURRENT_JOBS)
max_concurrent(w) == IF config[w] > 1 THEN config[w] ELSE 1

\* A slot count that forgets the jobs in flight.
AvailableSlotsIgnoringActive(w) == max_concurrent(w)

\* available_slots = max_concurrent - len(self.active_jobs)
AvailableSlots(w) == max_concurrent(w) - Cardinality(active_jobs[w])

\* run(): the jobs a cycle starts, given what get_pending_jobs claimed:
\* ready_jobs[:WORKER_MAX_CONCURRENT_JOBS], without those already in
\* flight, cut to the available slots.
NewJobs(w, claimed, slots) ==
  LET jobs == Prefix(claimed, config[w])
      new_jobs == SelectSeq(jobs, LAMBDA j : j \notin active_jobs[w])
  IN  Prefix(new_jobs, slots)

SeqRange(seq) == {seq[i] : i \in 1..Len(seq)}

\* ------------------------------------------------------------ poll loop

\* The first statement of a job's thread, by the worker's action.
FirstStep(a) ==
  CASE a = "generate_script" -> "s_check"
    [] a = "generate_voiceover" -> "vo_read"
    [] a = "create_video" -> "vid_locate"
    [] OTHER -> "yt_uploading"

\* run(), lines 184-212, after get_pending_jobs returned `claimed`: the new
\* jobs are added to active_jobs, a thread is started for each, and the
\* loop sleeps.
Dispatch(w, claimed) ==
  LET started == SeqRange(NewJobs(w, claimed, available_slots[w]))
  IN  /\ active_jobs' = [active_jobs EXCEPT ![w] = @ \cup started]
      /\ tpc' = [tpc EXCEPT ![w] =
                   [j \in Jobs |-> IF j \in started THEN FirstStep(action[w]) ELSE @[j]]]
      /\ wpc' = [wpc EXCEPT ![w] = "top"]
      /\ all_jobs' = [all_jobs EXCEPT ![w] = <<>>]
      /\ ready_jobs' = [ready_jobs EXCEPT ![w] = <<>>]
      /\ available_slots' = [available_slots EXCEPT ![w] = 0]

\* run(), lines 166-178: the heartbeat is due (always in the first
\* iteration, later every 30 seconds); get_all_jobs(limit=1) is read.
HeartbeatRead(w) ==
  /\ wpc[w] \in {"start", "top"}
  /\ beats[w] < MaxHeartbeats
  /\ beats' = [beats EXCEPT ![w] = @ + 1]
  /\ hb' = [hb EXCEPT ![w] = <<[id |-> get_all_jobs.id,
                                 metadata |-> get_all_jobs.row.metadata]>>]
  /\ wpc' = [wpc EXCEPT ![w] = "heartbeat"]
  /\ UNCHANGED <<store, youtube_videos, envvars, temp_dirs, all_jobs, ready_jobs,
                 available_slots, active_jobs, tvars>>

\* run(), line 178: the snapshot's metadata, with this worker's heartbeat
\* key, is written back; the status is left alone.
HeartbeatWrite(w) ==
  /\ wpc[w] = "heartbeat"
  /\ LET job == hb[w][1]
         metadata == [job.metadata EXCEPT !.heartbeat = "utcnow"]
     IN  store' = update_job_status(job.id, None, None, [metadata |-> metadata])
  /\ hb' = [hb EXCEPT ![w] = <<>>]
  /\ wpc' = [wpc EXCEPT ![w] = "poll"]
  /\ UNCHANGED <<youtube_videos, envvars, temp_dirs, beats, all_jobs, ready_jobs,
                 available_slots, active_jobs, tvars>>

\* run(), lines 185-212 with no free slot: nothing is fetched, the loop
\* sleeps.
NoSlot(w) ==
  /\ wpc[w] \in {"top", "poll"}
  /\ ~(AvailableSlots(w) > 0)
  /\ wpc' = [wpc EXCEPT ![w] = "top"]
  /\ UNCHANGED <<store, youtube_videos, envvars, temp_dirs, beats, hb, all_jobs, ready_jobs,
                 available_slots, active_jobs, tvars>>

\* A poll loop that waits for its jobs in flight before it fetches again.
PollFetchWhenIdle(w) ==
  /\ wpc[w] \in {"top", "poll"}
  /\ AvailableSlots(w) > 0
  /\ active_jobs[w] = {}
  /\ LET fetched == get_pending_jobs(config[w] * FetchFactor)
         cands == Candidates(fetched, action[w])
     IN  IF cands = <<>>
         THEN /\ wpc' = [wpc EXCEPT ![w] = "top"]
              /\ UNCHANGED <<all_jobs, available_slots>>
         ELSE /\ wpc' = [wpc EXCEPT ![w] = "claim"]
              /\ all_jobs' = [all_jobs EXCEPT ![w] = cands]
              /\ available_slots' = [available_slots EXCEPT ![w] = AvailableSlots(w)]
  /\ UNCHANGED <<store, youtube_videos, envvars, temp_dirs, beats, hb, ready_jobs,
                 active_jobs, tvars>>

\* run(), lines 185-190, and get_pending_jobs, lines 59-87: the slots are
\* computed, the pending jobs are fetched and those routed to this worker
\* are kept for the loop.  With none to examine the cycle ends here.
PollFetch(w) ==
  /\ wpc[w] \in {"top", "poll"}
  /\ AvailableSlots(w) > 0
  /\ LET fetched == get_pending_jobs(config[w] * FetchFactor)
         cands == Candidates(fetched, action[w])
     IN  IF cands = <<>>
         THEN /\ wpc' = [wpc EXCEPT ![w] = "top"]
              /\ UNCHANGED <<all_jobs, available_slots>>
         ELSE /\ wpc' = [wpc EXCEPT ![w] = "claim"]
              /\ all_jobs' = [all_jobs EXCEPT ![w] = cands]
              /\ available_slots' = [available_slots EXCEPT ![w] = AvailableSlots(w)]
  /\ UNCHANGED <<store, youtube_videos, envvars, temp_dirs, beats, hb, ready_jobs,
                 active_jobs, tvars>>

\* get_pending_jobs, lines 89-109, on a job whose dependencies are there:
\* the claim, update_job_status(id, status=processing_status,
\* metadata=metadata), and the job joins ready_jobs when it returns true.
\* After the last candidate the cycle goes on to start the claimed jobs.
Claim(w) ==
  /\ wpc[w] = "claim"
  /\ all_jobs[w] # <<>>
  /\ LET job == Head(all_jobs[w])
         claimed == IF Updated(job.id) THEN Append(ready_jobs[w], job.id)
                    ELSE ready_jobs[w]
     IN  /\ job.dependencies[1]
         /\ store' = update_job_status(job.id, processing_status(action[w]), None,
                                       [metadata |-> job.metadata])
         /\ IF Tail(all_jobs[w]) = <<>>
            THEN Dispatch(w, claimed)
            ELSE /\ all_jobs' = [all_jobs EXCEPT ![w] = Tail(@)]
                 /\ ready_jobs' = [ready_jobs EXCEPT ![w] = claimed]
                 /\ UNCHANGED <<wpc, available_slots, active_jobs, tpc>>
  /\ UNCHANGED <<youtube_videos, envvars, temp_dirs, beats, hb, current_metadata>>

\* get_pending_jobs, lines 114-123, on a job that is not ready: the missing
\* fields are recorded in the snapshot's metadata, which is written back
\* with an error message; the status is left alone.
NotReady(w) ==
  /\ wpc[w] = "claim"
  /\ all_jobs[w] # <<>>
  /\ LET job == Head(all_jobs[w])
         dep == job.dependencies
         metadata == [job.metadata EXCEPT !.missing_dependencies = dep[2]]
     IN  /\ ~dep[1]
         /\ store' = update_job_status(job.id, None, MissingMessage(dep[2]),
                                       [metadata |-> metadata])
         /\ IF Tail(all_jobs[w]) = <<>>
            THEN Dispatch(w, ready_jobs[w])
            ELSE /\ all_jobs' = [all_jobs EXCEPT ![w] = Tail(@)]
                 /\ UNCHANGED <<wpc, ready_jobs, available_slots, active_jobs, tpc>>
  /\ UNCHANGED <<youtube_videos, envvars, temp_dirs, beats, hb, current_metadata>>

\* ------------------------------------------------------- pipeline router

\* The auto-chain test of the script and voiceover workers:
\* original_action == "run_all" or current_action == "run_all".
IsRunAll(metadata) ==
  metadata.original_action = "run_all" \/ metadata.action_needed = "run_all"

\* worker_script.py, lines 98-110, and worker_voiceover.py, lines 90-102:
\* the metadata written after a successful stage; `next` is the action of
\* the stage that follows.
Advance(metadata, next) ==
  IF IsRunAll(metadata)
  THEN [metadata EXCEPT !.action_needed = next, !.original_action = "run_all",
                        !.missing_dependencies = <<>>]
  ELSE [metadata EXCEPT !.action_needed = None, !.original_action = None,
                        !.missing_dependencies = <<>>]

\* worker_script.py, lines 53-54: the metadata the skip path writes for an
\* auto-chain job.
SkipAdvance(metadata) ==
  [metadata EXCEPT !.action_needed = "generate_voiceover",
                   !.original_action = "run_all"]

\* A video stage that chains an auto-chain job into the publish stage.
VideoClearChaining(metadata) ==
  [metadata EXCEPT !.action_needed = IF IsRunAll(metadata) THEN "post_to_youtube"
                                     ELSE None,
                   !.missing_dependencies = <<>>]

\* worker_video.py, lines 125-143: the metadata written after the video
\* stage, on both branches.
VideoClear(metadata) ==
  [metadata EXCEPT !.action_needed = None, !.original_action = None,
                   !.missing_dependencies = <<>>]

\* worker_video.py, lines 134-137: all steps but the upload are done.
ReadyForUpload(row) ==
  /\ ~Falsy(row.script)
  /\ ~Falsy(row.voiceover_url)
  /\ ~Falsy(row.video_url)
  /\ Falsy(row.youtube_url)

\* worker_youtube.py, lines 187-189: the metadata written after the upload.
YouTubeClear(metadata) ==
  [metadata EXCEPT !.action_needed = None, !.missing_dependencies = <<>>]

\* ----------------------------------------------------------- job threads

NoUpdates == <<>>

\* str(e) of the exception a stage processor caught.
error_msg == "error"

\* The thread of job j in worker w moves to `pc` with local metadata `m`.
Goto(w, j, pc, m) ==
  /\ tpc' = [tpc EXCEPT ![w][j] = pc]
  /\ current_metadata' = [current_metadata EXCEPT ![w][j] = m]

\* The variables a thread's step leaves alone, but for the store and the
\* temporary directories.
StageFrame == UNCHANGED <<youtube_videos, envvars, wvars, active_jobs>>

\* The variables a thread's step leaves alone, but for the store.
ThreadFrame == StageFrame /\ UNCHANGED temp_dirs

\* The directories a stage makes under /tmp: the job's own,
\* /tmp/youtube_automation_{job_id}, and the one of the job's latest
\* rendering run, /tmp/youtube_automation_{job_id}_{uuid}.
JobDir(j) == <<j, "job">>
RenderDir(j) == <<j, "render">>

\* temp_dir.mkdir(parents=True, exist_ok=True) and shutil.rmtree(temp_dir)
\* inside try/except: the directories of worker w's process afterwards.
mkdir(w, d) == [temp_dirs EXCEPT ![w] = @ \cup {d}]
rmtree(w, d) == [temp_dirs EXCEPT ![w] = @ \ {d}]

\* The cleanup an except branch does before it records the failure: only
\* worker_youtube.py, lines 216-221, has one.
ExceptCleanup(w, j) ==
  IF action[w] = "post_to_youtube" THEN rmtree(w, JobDir(j)) ELSE temp_dirs

\* worker_script.py, lines 45-56: the job is read again; with a script
\* already there the run is skipped, and only an auto-chain job has its
\* metadata advanced.
ScriptCheck(w, j) ==
  /\ tpc[w][j] = "s_check"
  /\ LET current_job == store[j]
     IN  IF ~Falsy(current_job.script)
         THEN IF IsRunAll(current_job.metadata)
              THEN Goto(w, j, "s_skip_write", SkipAdvance(current_job.metadata))
              ELSE Goto(w, j, "ret_true", EmptyMetadata)
         ELSE Goto(w, j, "s_read", EmptyMetadata)
  /\ UNCHANGED store
  /\ ThreadFrame

\* worker_script.py, line 55: the skip path's metadata write.
ScriptSkipWrite(w, j) ==
  /\ tpc[w][j] = "s_skip_write"
  /\ store' = update_job_status(j, None, None, [metadata |-> current_metadata[w][j]])
  /\ Goto(w, j, "ret_true", EmptyMetadata)
  /\ ThreadFrame

\* worker_script.py, lines 62-64: the metadata is read for the sub-status.
ScriptRead(w, j) ==
  /\ tpc[w][j] = "s_read"
  /\ Goto(w, j, "s_sub1",
          [store[j].metadata EXCEPT !.sub_status = "generating_title_description"])
  /\ UNCHANGED store
  /\ ThreadFrame

\* worker_script.py, lines 65-67: the sub-status is written, then the title
\* and description are generated, which may raise.
ScriptSubStatus1(w, j) ==
  /\ tpc[w][j] = "s_sub1"
  /\ store' = update_job_status(j, None, None, [metadata |-> current_metadata[w][j]])
  /\ \E ok \in BOOLEAN :
       Goto(w, j, IF ok THEN "s_title" ELSE "fail", current_metadata[w][j])
  /\ ThreadFrame

\* worker_script.py, line 70.
ScriptSaveTitle(w, j) ==
  /\ tpc[w][j] = "s_title"
  /\ store' = update_job_status(j, None, None, [title |-> Fresh(store[j].title)])
  /\ Goto(w, j, "s_desc", current_metadata[w][j])
  /\ ThreadFrame

\* worker_script.py, line 74.
ScriptSaveDescription(w, j) ==
  /\ tpc[w][j] = "s_desc"
  /\ store' = update_job_status(j, None, None,
                                [description |-> Fresh(store[j].description)])
  /\ Goto(w, j, "s_tags", current_metadata[w][j])
  /\ ThreadFrame

\* worker_script.py, lines 78-83.
ScriptSaveTags(w, j) ==
  /\ tpc[w][j] = "s_tags"
  /\ store' = update_job_status(j, None, None, [tags |-> Fresh(store[j].tags)])
  /\ Goto(w, j, "s_sub2",
          [current_metadata[w][j] EXCEPT !.sub_status = "generating_script"])
  /\ ThreadFrame

\* worker_script.py, lines 84-86: the second sub-status write, from the
\* metadata read at line 62, then the script is generated, which may raise.
ScriptSubStatus2(w, j) ==
  /\ tpc[w][j] = "s_sub2"
  /\ store' = update_job_status(j, None, None, [metadata |-> current_metadata[w][j]])
  /\ \E ok \in BOOLEAN :
       Goto(w, j, IF ok THEN "s_script" ELSE "fail", EmptyMetadata)
  /\ ThreadFrame

\* worker_script.py, line 89.
ScriptSaveScript(w, j) ==
  /\ tpc[w][j] = "s_script"
  /\ store' = update_job_status(j, None, None, [script |-> Fresh(store[j].script)])
  /\ Goto(w, j, "s_route_read", EmptyMetadata)
  /\ ThreadFrame

\* worker_script.py, lines 96-110: the metadata is read again and advanced.
ScriptRouteRead(w, j) ==
  /\ tpc[w][j] = "s_route_read"
  /\ Goto(w, j, "s_route_write", Advance(store[j].metadata, "generate_voiceover"))
  /\ UNCHANGED store
  /\ ThreadFrame

\* worker_script.py, lines 111-114.
ScriptRouteWrite(w, j) ==
  /\ tpc[w][j] = "s_route_write"
  /\ store' = update_job_status(j, "pending", None,
                                [metadata |-> current_metadata[w][j]])
  /\ Goto(w, j, "ret_true", EmptyMetadata)
  /\ ThreadFrame

\* The except branch of every process_job: the job is set to failed with
\* the error's message, and False is returned.
Fail(w, j) ==
  /\ tpc[w][j] = "fail"
  /\ store' = update_job_status(j, "failed", error_msg, NoUpdates)
  /\ temp_dirs' = ExceptCleanup(w, j)
  /\ Goto(w, j, "ret_false", EmptyMetadata)
  /\ StageFrame

\* The process of worker w has not ended: its run() has not returned, and
\* its daemon threads go on.
Alive(w) == wpc[w] \notin {"crashed", "exited"}

\* run(), lines 217-221: after a stop signal the main thread keeps
\* active_jobs_lock for as long as it waits for the jobs in flight.
LockHeld(w) == wpc[w] = "drain"

\* A release that ignores a processor's exception.
ReleaseOnReturn(w, j) ==
  /\ tpc[w][j] \in {"ret_true", "ret_false"}
  /\ ~LockHeld(w)
  /\ tpc' = [tpc EXCEPT ![w][j] = "idle"]
  /\ active_jobs' = [active_jobs EXCEPT ![w] = @ \ {j}]
  /\ UNCHANGED <<store, youtube_videos, envvars, temp_dirs, wvars, current_metadata>>

\* _process_job_thread, lines 135-142: whatever process_job did, returned
\* or raised, the thread takes active_jobs_lock and the job leaves
\* active_jobs.
Release(w, j) ==
  /\ tpc[w][j] \in {"ret_true", "ret_false", "raised"}
  /\ ~LockHeld(w)
  /\ tpc' = [tpc EXCEPT ![w][j] = "idle"]
  /\ active_jobs' = [active_jobs EXCEPT ![w] = @ \ {j}]
  /\ UNCHANGED <<store, youtube_videos, envvars, temp_dirs, wvars, current_metadata>>

\* worker_voiceover.py, lines 53-55.
VoiceoverRead(w, j) ==
  /\ tpc[w][j] = "vo_read"
  /\ Goto(w, j, "vo_status", [store[j].metadata EXCEPT !.sub_status = "generating_audio"])
  /\ UNCHANGED store
  /\ ThreadFrame

\* worker_voiceover.py, lines 56-77: the status and sub-status are written
\* and the job's temporary directory is made, then the voiceover is
\* generated into it, which may fail.
VoiceoverStatus(w, j) ==
  /\ tpc[w][j] = "vo_status"
  /\ store' = update_job_status(j, "creating_voiceover", None,
                                [metadata |-> current_metadata[w][j]])
  /\ temp_dirs' = mkdir(w, JobDir(j))
  /\ \/ Goto(w, j, "vo_sub",
             [current_metadata[w][j] EXCEPT !.sub_status = "saving_voiceover"])
     \/ Goto(w, j, "fail", EmptyMetadata)
  /\ StageFrame

\* worker_voiceover.py, line 78, and save_voiceover_path, lines 128-140:
\* the sub-status is written from the metadata read at line 53, then the
\* file is copied, which may raise.
VoiceoverSubStatus(w, j) ==
  /\ tpc[w][j] = "vo_sub"
  /\ store' = update_job_status(j, None, None, [metadata |-> current_metadata[w][j]])
  /\ \E ok \in BOOLEAN :
       Goto(w, j, IF ok THEN "vo_save" ELSE "fail", EmptyMetadata)
  /\ ThreadFrame

\* save_voiceover_path, lines 143-144: the new file's path is stored.
VoiceoverSave(w, j) ==
  /\ tpc[w][j] = "vo_save"
  /\ store' = update_job_status(j, None, None,
                                [voiceover_url |-> Fresh(store[j].voiceover_url)])
  /\ Goto(w, j, "vo_route_read", EmptyMetadata)
  /\ ThreadFrame

\* worker_voiceover.py, lines 88-102.
VoiceoverRouteRead(w, j) ==
  /\ tpc[w][j] = "vo_route_read"
  /\ Goto(w, j, "vo_route_write", Advance(store[j].metadata, "create_video"))
  /\ UNCHANGED store
  /\ ThreadFrame

\* worker_voiceover.py, lines 103-109.
VoiceoverRouteWrite(w, j) ==
  /\ tpc[w][j] = "vo_route_write"
  /\ store' = update_job_status(j, "pending", None,
                                [metadata |-> current_metadata[w][j]])
  /\ Goto(w, j, "ret_true", EmptyMetadata)
  /\ ThreadFrame

\* worker_video.py, lines 62-91: the voiceover is located.  A local file
\* that does not exist returns False; a voiceover behind a URL is
\* downloaded into the job's temporary directory, and a download that fails
\* raises; both happen before the try block.  Otherwise the metadata is
\* read.
VideoLocate(w, j) ==
  /\ tpc[w][j] = "vid_locate"
  /\ IF IsUrl(store[j].voiceover_url)
     THEN /\ temp_dirs' = mkdir(w, JobDir(j))
          /\ \/ Goto(w, j, "raised", EmptyMetadata)
             \/ Goto(w, j, "vid_status",
                     [store[j].metadata EXCEPT !.sub_status = "rendering_video"])
     ELSE /\ UNCHANGED temp_dirs
          /\ \/ Goto(w, j, "ret_false", EmptyMetadata)
             \/ Goto(w, j, "vid_status",
                     [store[j].metadata EXCEPT !.sub_status = "rendering_video"])
  /\ UNCHANGED store
  /\ StageFrame

\* worker_video.py, lines 92-113: the status and sub-status are written
\* and the run's temporary directory is made, then the video is rendered
\* into it, which may fail.
VideoStatus(w, j) ==
  /\ tpc[w][j] = "vid_status"
  /\ store' = update_job_status(j, "rendering_video", None,
                                [metadata |-> current_metadata[w][j]])
  /\ temp_dirs' = mkdir(w, RenderDir(j))
  /\ \/ Goto(w, j, "vid_sub",
             [current_metadata[w][j] EXCEPT !.sub_status = "saving_video"])
     \/ Goto(w, j, "fail", EmptyMetadata)
  /\ StageFrame

\* worker_video.py, line 114, and save_video_path, lines 150-162.
VideoSubStatus(w, j) ==
  /\ tpc[w][j] = "vid_sub"
  /\ store' = update_job_status(j, None, None, [metadata |-> current_metadata[w][j]])
  /\ \E ok \in BOOLEAN :
       Goto(w, j, IF ok THEN "vid_save" ELSE "fail", EmptyMetadata)
  /\ ThreadFrame

\* save_video_path, lines 165-166: the new file's path is stored.
VideoSave(w, j) ==
  /\ tpc[w][j] = "vid_save"
  /\ store' = update_job_status(j, None, None,
                                [video_url |-> Fresh(store[j].video_url)])
  /\ Goto(w, j, "vid_route_read", EmptyMetadata)
  /\ ThreadFrame

\* worker_video.py, lines 124-139: the job is read again; its metadata is
\* cleared and the status to write is chosen from the row read.
VideoRouteRead(w, j) ==
  /\ tpc[w][j] = "vid_route_read"
  /\ Goto(w, j, IF ReadyForUpload(store[j]) THEN "vid_write_ready"
                ELSE "vid_write_pending",
          VideoClear(store[j].metadata))
  /\ UNCHANGED store
  /\ ThreadFrame

\* worker_video.py, lines 140 and 144-153: the status is written and the
\* run's temporary directory is removed.
VideoRouteWrite(w, j) ==
  /\ tpc[w][j] \in {"vid_write_ready", "vid_write_pending"}
  /\ store' = update_job_status(j, IF tpc[w][j] = "vid_write_ready" THEN "ready"
                                   ELSE "pending",
                                None, [metadata |-> current_metadata[w][j]])
  /\ temp_dirs' = rmtree(w, RenderDir(j))
  /\ Goto(w, j, "ret_true", EmptyMetadata)
  /\ StageFrame

\* worker_youtube.py, lines 136-177: the status is written, then the video
\* file is located, a video behind a URL being downloaded into the job's
\* temporary directory, and uploaded; each of these may raise.
YouTubeUploading(w, j) ==
  /\ tpc[w][j] = "yt_uploading"
  /\ store' = update_job_status(j, "uploading", None, NoUpdates)
  /\ temp_dirs' = IF IsUrl(store[j].video_url) THEN mkdir(w, JobDir(j)) ELSE temp_dirs
  /\ \E ok \in BOOLEAN :
       Goto(w, j, IF ok THEN "yt_record" ELSE "fail", EmptyMetadata)
  /\ StageFrame

\* worker_youtube.py, line 180: save_youtube_video appends a record.
YouTubeRecord(w, j) ==
  /\ tpc[w][j] = "yt_record"
  /\ youtube_videos' = [youtube_videos EXCEPT ![j] = Count(@)]
  /\ Goto(w, j, "yt_completed", EmptyMetadata)
  /\ UNCHANGED <<store, envvars, temp_dirs, wvars, active_jobs>>

\* worker_youtube.py, line 181: update_job_with_youtube sets the status to
\* completed with the video's id and url (one column of the model).
YouTubeCompleted(w, j) ==
  /\ tpc[w][j] = "yt_completed"
  /\ store' = update_job_status(j, "completed", None,
                                [youtube_url |-> Fresh(store[j].youtube_url)])
  /\ Goto(w, j, "yt_route_read", EmptyMetadata)
  /\ ThreadFrame

\* worker_youtube.py, lines 186-189.
YouTubeRouteRead(w, j) ==
  /\ tpc[w][j] = "yt_route_read"
  /\ Goto(w, j, "yt_route_write", YouTubeClear(store[j].metadata))
  /\ UNCHANGED store
  /\ ThreadFrame

\* worker_youtube.py, lines 190-208: the status is written again and the
\* job's temporary directory, if one was made, is removed.
YouTubeRouteWrite(w, j) ==
  /\ tpc[w][j] = "yt_route_write"
  /\ store' = update_job_status(j, "completed", None,
                                [metadata |-> current_metadata[w][j]])
  /\ temp_dirs' = rmtree(w, JobDir(j))
  /\ Goto(w, j, "ret_true", EmptyMetadata)
  /\ StageFrame

\* ------------------------------------------ store errors and stop signal

\* Largest number of store operations that raise an error in a behaviour.
MaxStoreErrors == 1

\* The store operation `op` of worker w on job j (0: no one job) raises an
\* error, which is recorded.
Raises(op, w, j) ==
  /\ Cardinality(store_errors) < MaxStoreErrors
  /\ store_errors' = store_errors \cup {<<op, w, j>>}
  /\ UNCHANGED <<config, action, submitted, update_data>>

\* run(), lines 170-182: get_all_jobs raises in the heartbeat.  The except
\* branch swallows the error, the heartbeat counts as sent and the cycle
\* goes on.
HeartbeatReadRaises(w) ==
  /\ wpc[w] \in {"start", "top"}
  /\ beats[w] < MaxHeartbeats
  /\ Raises("heartbeat", w, 0)
  /\ beats' = [beats EXCEPT ![w] = @ + 1]
  /\ wpc' = [wpc EXCEPT ![w] = "poll"]
  /\ UNCHANGED <<store, youtube_videos, hb, all_jobs, ready_jobs, available_slots,
                 active_jobs, tvars, temp_dirs>>

\* run(), lines 178-182: the heartbeat's update_job_status raises; the
\* error is swallowed as well.
HeartbeatWriteRaises(w) ==
  /\ wpc[w] = "heartbeat"
  /\ Raises("heartbeat", w, 0)
  /\ hb' = [hb EXCEPT ![w] = <<>>]
  /\ wpc' = [wpc EXCEPT ![w] = "poll"]
  /\ UNCHANGED <<store, youtube_videos, beats, all_jobs, ready_jobs, available_slots,
                 active_jobs, tvars, temp_dirs>>

\* run(), lines 222-225: an exception that reaches run() leaves the while
\* loop; it is printed and run() returns.
Crash(w) ==
  /\ wpc' = [wpc EXCEPT ![w] = "crashed"]
  /\ all_jobs' = [all_jobs EXCEPT ![w] = <<>>]
  /\ ready_jobs' = [ready_jobs EXCEPT ![w] = <<>>]
  /\ available_slots' = [available_slots EXCEPT ![w] = 0]
  /\ UNCHANGED <<store, youtube_videos, beats, hb, active_jobs, tvars, temp_dirs>>

\* get_pending_jobs, line 59: the fetch raises.  Nothing in
\* get_pending_jobs or in the while loop of run() catches the error.
FetchRaises(w) ==
  /\ wpc[w] \in {"top", "poll"}
  /\ AvailableSlots(w) > 0
  /\ Raises("fetch", w, 0)
  /\ Crash(w)

\* A claim whose error is swallowed but whose job is dispatched all the same.
ClaimRaisesAndDispatches(w) ==
  /\ wpc[w] = "claim"
  /\ all_jobs[w] # <<>>
  /\ LET job == Head(all_jobs[w])
         claimed == Append(ready_jobs[w], job.id)
     IN  /\ job.dependencies[1]
         /\ Raises("claim", w, job.id)
         /\ UNCHANGED store
         /\ IF Tail(all_jobs[w]) = <<>>
            THEN Dispatch(w, claimed)
            ELSE /\ all_jobs' = [all_jobs EXCEPT ![w] = Tail(@)]
                 /\ ready_jobs' = [ready_jobs EXCEPT ![w] = claimed]
                 /\ UNCHANGED <<wpc, available_slots, active_jobs, tpc>>
  /\ UNCHANGED <<youtube_videos, beats, hb, current_metadata, temp_dirs>>

\* get_pending_jobs, lines 102-113: the claim's update_job_status raises,
\* with the update applied or not.  The except branch prints the error; the
\* job does not join ready_jobs and the loop goes on to the next candidate.
ClaimRaises(w) ==
  /\ wpc[w] = "claim"
  /\ all_jobs[w] # <<>>
  /\ LET job == Head(all_jobs[w])
     IN  /\ job.dependencies[1]
         /\ Raises("claim", w, job.id)
         /\ store' \in {store,
                        update_job_status(job.id, processing_status(action[w]), None,
                                          [metadata |-> job.metadata])}
         /\ IF Tail(all_jobs[w]) = <<>>
            THEN Dispatch(w, ready_jobs[w])
            ELSE /\ all_jobs' = [all_jobs EXCEPT ![w] = Tail(@)]
                 /\ UNCHANGED <<wpc, ready_jobs, available_slots, active_jobs, tpc>>
  /\ UNCHANGED <<youtube_videos, beats, hb, current_metadata, temp_dirs>>

\* get_pending_jobs, lines 114-123: the not-ready annotation's
\* update_job_status raises, outside any try block.
NotReadyRaises(w) ==
  /\ wpc[w] = "claim"
  /\ all_jobs[w] # <<>>
  /\ ~Head(all_jobs[w]).dependencies[1]
  /\ Raises("annotate", w, Head(all_jobs[w]).id)
  /\ Crash(w)

\* The except branch of a process_job: the update_job_status that records
\* the failure raises, and the exception leaves process_job.
FailRaises(w, j) ==
  /\ Alive(w)
  /\ tpc[w][j] = "fail"
  /\ Raises("fail", w, j)
  /\ temp_dirs' = ExceptCleanup(w, j)
  /\ Goto(w, j, "raised", EmptyMetadata)
  /\ UNCHANGED <<store, youtube_videos, wvars, active_jobs>>

\* worker_youtube.py, line 186, inside the try block: the get_job that
\* follows update_job_with_youtube raises, and the except branch is entered.
YouTubeRouteReadRaises(w, j) ==
  /\ Alive(w)
  /\ tpc[w][j] = "yt_route_read"
  /\ Raises("route", w, j)
  /\ Goto(w, j, "fail", EmptyMetadata)
  /\ UNCHANGED <<store, youtube_videos, wvars, active_jobs, temp_dirs>>

\* worker_youtube.py, line 190, inside the try block: the second write of
\* the completed status raises, with the update applied or not, and the
\* except branch is entered.
YouTubeRouteWriteRaises(w, j) ==
  /\ Alive(w)
  /\ tpc[w][j] = "yt_route_write"
  /\ Raises("route", w, j)
  /\ store' \in {store,
                 update_job_status(j, "completed", None,
                                   [metadata |-> current_metadata[w][j]])}
  /\ Goto(w, j, "fail", EmptyMetadata)
  /\ UNCHANGED <<youtube_videos, wvars, active_jobs, temp_dirs>>

\* run(), lines 214-217: KeyboardInterrupt arrives in the main thread, at
\* any point of the loop; the except branch takes active_jobs_lock.
Interrupt(w) ==
  /\ wpc[w] \in {"start", "top", "heartbeat", "poll", "claim"}
  /\ wpc' = [wpc EXCEPT ![w] = "drain"]
  /\ hb' = [hb EXCEPT ![w] = <<>>]
  /\ all_jobs' = [all_jobs EXCEPT ![w] = <<>>]
  /\ ready_jobs' = [ready_jobs EXCEPT ![w] = <<>>]
  /\ available_slots' = [available_slots EXCEPT ![w] = 0]
  /\ UNCHANGED <<store, youtube_videos, envvars, temp_dirs, beats, active_jobs, tvars>>

\* run(), lines 218-221, under the lock: with no job in flight run()
\* returns; otherwise the main thread sleeps a second and looks again.
DrainWait(w) ==
  /\ wpc[w] = "drain"
  /\ wpc' = [wpc EXCEPT ![w] = IF active_jobs[w] = {} THEN "exited" ELSE "drain"]
  /\ UNCHANGED <<store, youtube_videos, envvars, temp_dirs, beats, hb, all_jobs, ready_jobs,
                 available_slots, active_jobs, tvars>>

\* ------------------------------------------------------- initial states

\* A row of video_jobs as the pipeline leaves it after `done` of its stages
\* (script, voiceover, video, upload) have produced their columns.
Columns(done) ==
  [topic |-> "v1",
   script |-> IF done >= 1 THEN "v1" ELSE None,
   title |-> IF done >= 1 THEN "v1" ELSE None,
   description |-> IF done >= 1 THEN "v1" ELSE None,
   tags |-> IF done >= 1 THEN "v1" ELSE None,
   voiceover_url |-> IF done >= 2 THEN "v1" ELSE None,
   video_url |-> IF done >= 3 THEN "v1" ELSE None,
   youtube_url |-> IF done >= 4 THEN "v1" ELSE None]

\* create_job and the submitter's trigger: a pending row whose metadata
\* routes it to the stage of `action_needed`, with or without the
\* auto-chain flag in original_action.  The started_at and completed_at
\* columns hold the number of timestamps written to them, 0 for null.
Row(columns, action_needed, original_action) ==
  [f \in DOMAIN columns \cup {"status", "metadata", "error_message", "started_at",
                              "completed_at"} |->
     CASE f = "status" -> "pending"
       [] f = "started_at" -> 0
       [] f = "completed_at" -> 0
       [] f = "metadata" -> [EmptyMetadata EXCEPT !.action_needed = action_needed,
                                                  !.original_action = original_action]
       [] f = "error_message" -> None
       [] OTHER -> columns[f]]

\* The values a submitter gives action_needed: a stage's action, the
\* auto-chain sentinel itself, or nothing.
Routings == Actions \cup {"run_all", None}

\* The rows a submitter leaves for the workers.
SubmittedRows ==
  {Row(Columns(done), a, o) : done \in 0..4, a \in Routings, o \in {None, "run_all"}}

\* The place of a worker's action in the pipeline.
StageIndex(a) ==
  CASE a = "generate_script" -> 1
    [] a = "generate_voiceover" -> 2
    [] a = "create_video" -> 3
    [] OTHER -> 4

\* The worker processes are interchangeable: they are numbered in the
\* order of their stages.
Deployments(k) ==
  {d \in [1..k -> Actions] :
     \A v, w \in 1..k : v < w => StageIndex(d[v]) <= StageIndex(d[w])}

\* Every worker process of the deployment read the setting c from its
\* environment.
Configured(c) == config = [w \in Workers |-> c]

\* No job is in flight, no poll cycle is under way and no store operation
\* has raised.
InitLocals ==
  /\ hb = [w \in Workers |-> <<>>]
  /\ all_jobs = [w \in Workers |-> <<>>]
  /\ ready_jobs = [w \in Workers |-> <<>>]
  /\ available_slots = [w \in Workers |-> 0]
  /\ active_jobs = [w \in Workers |-> {}]
  /\ tpc = [w \in Workers |-> [j \in Jobs |-> "idle"]]
  /\ current_metadata = [w \in Workers |-> [j \in Jobs |-> EmptyMetadata]]
  /\ youtube_videos = [j \in Jobs |-> 0]
  /\ submitted = [j \in Jobs |->
                    [action_needed |-> store[j].metadata.action_needed,
                     original_action |-> store[j].metadata.original_action]]
  /\ store_errors = {}
  /\ update_data = [w \in Workers |-> [j \in Jobs |-> <<>>]]
  /\ temp_dirs = [w \in Workers |-> {}]

\* The state of every worker process and thread when run() is entered.
InitWorkers ==
  /\ wpc = [w \in Workers |-> "start"]
  /\ beats = [w \in Workers |-> 0]
  /\ InitLocals

\* Up to NumWorkers workers, of any stages, are started on a store that
\* holds one submitted job.
Init ==
  /\ \E k \in 1..NumWorkers : action \in Deployments(k)
  /\ \E c \in 1..MaxConfigured : Configured(c)
  /\ \E r \in SubmittedRows : store = <<r>>
  /\ InitWorkers

\* One worker of any stage on a store of up to MaxJobs jobs submitted alike,
\* or a script worker that hands its jobs one at a time to a voiceover
\* worker.
InitCapacity ==
  /\ \/ /\ action \in Deployments(1)
        /\ \E c \in 0..MaxConfigured : Configured(c)
        /\ \E r \in SubmittedRows, n \in 1..MaxJobs : store = [j \in 1..n |-> r]
     \/ /\ action = <<"generate_script", "generate_voiceover">>
        /\ Configured(1)
        /\ \E n \in 1..MaxJobs :
             store = [j \in 1..n |-> Row(Columns(0), "generate_script", "run_all")]
  /\ InitWorkers

\* The values a stage's input column holds when a job reaches its worker:
\* null, the empty string, or a value.
DependencyValues == {None, "", "v1"}

\* The values of a column that names a file: those, and a URL.
FileValues == DependencyValues \cup {Url}

\* Jobs routed to stage a, single-stage or auto-chain, with every
\* combination of input columns.
DependencyRows(a) ==
  {Row([topic |-> t, script |-> s, title |-> ti, description |-> d, tags |-> None,
        voiceover_url |-> vo, video_url |-> vi, youtube_url |-> None], a, o) :
     t \in DependencyValues, s \in DependencyValues, ti \in DependencyValues,
     d \in DependencyValues, vo \in FileValues, vi \in FileValues,
     o \in {None, "run_all"}}

\* One worker of any stage on a store that holds one job routed to it.
InitDependencies ==
  /\ action \in Deployments(1)
  /\ \E c \in 1..MaxConfigured : Configured(c)
  /\ \E r \in DependencyRows(action[1]) : store = <<r>>
  /\ InitWorkers

\* Largest number of jobs in the store when store errors and stop signals
\* are considered.
MaxFaultJobs == 2

\* One worker of any stage on a store of up to MaxFaultJobs jobs submitted
\* alike.
InitFaults ==
  /\ action \in Deployments(1)
  /\ \E c \in 1..MaxConfigured : Configured(c)
  /\ \E r \in SubmittedRows, n \in 1..MaxFaultJobs : store = [j \in 1..n |-> r]
  /\ InitWorkers

\* ------------------------------------------------------------ next state

PollStep(w) ==
  \/ HeartbeatRead(w)
  \/ HeartbeatWrite(w)
  \/ NoSlot(w)
  \/ PollFetch(w)
  \/ Claim(w)
  \/ NotReady(w)

ScriptStep(w, j) ==
  \/ ScriptCheck(w, j)
  \/ ScriptSkipWrite(w, j)
  \/ ScriptRead(w, j)
  \/ ScriptSubStatus1(w, j)
  \/ ScriptSaveTitle(w, j)
  \/ ScriptSaveDescription(w, j)
  \/ ScriptSaveTags(w, j)
  \/ ScriptSubStatus2(w, j)
  \/ ScriptSaveScript(w, j)
  \/ ScriptRouteRead(w, j)
  \/ ScriptRouteWrite(w, j)

VoiceoverStep(w, j) ==
  \/ VoiceoverRead(w, j)
  \/ VoiceoverStatus(w, j)
  \/ VoiceoverSubStatus(w, j)
  \/ VoiceoverSave(w, j)
  \/ VoiceoverRouteRead(w, j)
  \/ VoiceoverRouteWrite(w, j)

VideoStep(w, j) ==
  \/ VideoLocate(w, j)
  \/ VideoStatus(w, j)
  \/ VideoSubStatus(w, j)
  \/ VideoSave(w, j)
  \/ VideoRouteRead(w, j)
  \/ VideoRouteWrite(w, j)

YouTubeStep(w, j) ==
  \/ YouTubeUploading(w, j)
  \/ YouTubeRecord(w, j)
  \/ YouTubeCompleted(w, j)
  \/ YouTubeRouteRead(w, j)
  \/ YouTubeRouteWrite(w, j)

ThreadStep(w, j) ==
  /\ Alive(w)
  /\ \/ ScriptStep(w, j)
     \/ VoiceoverStep(w, j)
     \/ VideoStep(w, j)
     \/ YouTubeStep(w, j)
     \/ Fail(w, j)
     \/ Release(w, j)

Next ==
  \/ \E w \in Workers : PollStep(w)
  \/ \E w \in Workers, j \in Jobs : ThreadStep(w, j)

Spec == Init /\ [][Next]_vars

SpecCapacity == InitCapacity /\ [][Next]_vars

SpecDependencies == InitDependencies /\ [][Next]_vars

\* The store errors a poll loop meets.
FaultStep(w) ==
  \/ HeartbeatReadRaises(w)
  \/ HeartbeatWriteRaises(w)
  \/ FetchRaises(w)
  \/ ClaimRaises(w)
  \/ NotReadyRaises(w)

\* The stop signal and the drain that follows it.
StopStep(w) ==
  \/ Interrupt(w)
  \/ DrainWait(w)

NextFaults ==
  \/ Next
  \/ \E w \in Workers : FaultStep(w)
  \/ \E w \in Workers, j \in Jobs : FailRaises(w, j)
  \/ \E w \in Workers : StopStep(w)

SpecFaults == InitFaults /\ [][NextFaults]_vars

\* The scheduler lets every thread that can take a step take one: the main
\* thread of a worker in its loop or its drain, and each job thread.  Store
\* errors and the stop signal may or may not happen.
Fairness ==
  /\ \A w \in 1..NumWorkers :
       WF_vars(IF w \in Workers THEN PollStep(w) \/ DrainWait(w) ELSE FALSE)
  /\ \A w \in 1..NumWorkers : \A j \in 1..MaxJobs :
       WF_vars(IF w \in Workers /\ j \in Jobs THEN ThreadStep(w, j) ELSE FALSE)

SpecLive == InitFaults /\ [][NextFaults]_vars /\ Fairness

\* The row of a job that reaches stage a with the earlier stages' columns
\* filled, submitted for stage a alone or as part of an auto-chain.
StageRows(a) ==
  {Row(Columns(StageIndex(a) - 1), a, o) : o \in {None, "run_all"}}

\* One worker of any stage on a store of jobs that are all ready for its
\* stage: two jobs submitted alike, for the stage alone or as part of an
\* auto-chain, or more jobs submitted for the stage alone.
InitPolling ==
  /\ action \in Deployments(1)
  /\ \E c \in 1..MaxConfigured : Configured(c)
  /\ \E r \in StageRows(action[1]), n \in 2..MaxJobs :
       /\ n > 2 => r.metadata.original_action = None
       /\ store = [j \in 1..n |-> r]
  /\ InitWorkers

\* The main thread of every worker is scheduled; a job's thread may take
\* any time, or for ever, over each of its steps.
PollFairness ==
  \A w \in 1..NumWorkers :
    WF_vars(IF w \in Workers THEN PollStep(w) ELSE FALSE)

SpecPolling == InitPolling /\ [][Next]_vars /\ PollFairness

\* One worker for each of the script, voiceover and video stages.
ChainDeployment == <<"generate_script", "generate_voiceover", "create_video">>

\* The settings of the three workers: all run one job at a time, or the
\* script and voiceover workers run up to MaxConfigured jobs at a time.
ChainSettings == {<<1, 1, 1>>, <<MaxConfigured, MaxConfigured, 1>>}

\* The three workers are running, their first heartbeat sent, when a job is
\* created for the whole chain: pending, with a topic, routed to the script
\* stage, auto-chain.
InitChain ==
  /\ action = ChainDeployment
  /\ config \in ChainSettings
  /\ store = <<Row(Columns(0), "generate_script", "run_all")>>
  /\ wpc = [w \in Workers |-> "top"]
  /\ beats = [w \in Workers |-> MaxHeartbeats]
  /\ InitLocals

\* A stage processor has failed: it is in its except branch, or it has
\* returned False or raised.
ProcessorFailed ==
  \E w \in Workers : \E j \in Jobs : tpc[w][j] \in {"fail", "ret_false", "raised"}

\* The job has every output of the three stages and is ready for the
\* publish trigger.
ChainDone(j) ==
  /\ store[j].status = "ready"
  /\ \A f \in {"script", "title", "description", "tags", "voiceover_url", "video_url"} :
       ~Falsy(store[j][f])
  /\ store[j].metadata.action_needed = None

\* A step of the chain's history up to the job being ready, in which no
\* stage processor fails.
ChainStep(A) == ~ChainDone(1) /\ A /\ ~ProcessorFailed'

NextChain == ChainStep(Next)

\* Every main thread and every job thread of the three workers is
\* scheduled.
ChainFairness ==
  /\ \A w \in DOMAIN ChainDeployment : WF_vars(ChainStep(PollStep(w)))
  /\ \A w \in DOMAIN ChainDeployment : WF_vars(ChainStep(ThreadStep(w, 1)))

SpecChain == InitChain /\ [][NextChain]_vars /\ ChainFairness

\* The messages a row's error_message column holds after an earlier attempt:
\* a stage's failure, or a not-ready annotation.
EarlierErrors == {error_msg, MissingMessage(<<>>)}

\* One worker of any stage and one job that went through an earlier attempt
\* and was submitted again for the worker's stage: pending, routed to the
\* stage, its dependencies present, its error_message still set.
InitRetry ==
  /\ action \in Deployments(1)
  /\ \E c \in 1..MaxConfigured : Configured(c)
  /\ \E r \in StageRows(action[1]), e \in EarlierErrors :
       store = <<[r EXCEPT !.error_message = e]>>
  /\ InitWorkers

SpecRetry == InitRetry /\ [][Next]_vars

\* The pending jobs created before the job of interest: enough to fill the
\* fetch of a worker with one slot, or one less.
OlderJobs == {FetchFactor - 1, FetchFactor}

\* A job created without routing, as create_job leaves it: pending, no
\* action_needed.  No worker ever takes it out of pending.
UnroutedRow == Row(Columns(0), None, None)

\* One worker of any stage; the newest job of the store is routed to its
\* stage and ready, the older ones are pending and carry no action_needed.
InitWindow ==
  /\ action \in Deployments(1)
  /\ \E c \in 1..MaxConfigured : Configured(c)
  /\ \E r \in StageRows(action[1]), n \in OlderJobs :
       store = [j \in 1..(n + 1) |-> IF j <= n THEN UnroutedRow ELSE r]
  /\ InitWorkers

\* The main thread of the worker and the thread of every job are scheduled.
WindowFairness ==
  /\ PollFairness
  /\ \A j \in 1..(FetchFactor + 1) :
       WF_vars(IF j \in Jobs THEN ThreadStep(1, j) ELSE FALSE)

SpecWindow == InitWindow /\ [][Next]_vars /\ WindowFairness

\* One publish worker and one or two jobs ready for publication, submitted
\* alike; the store may raise an error on the operations that follow the
\* recording of the published video.
InitPublish ==
  /\ action = <<"post_to_youtube">>
  /\ \E c \in 1..MaxConfigured : Configured(c)
  /\ \E r \in StageRows("post_to_youtube"), n \in 1..MaxFaultJobs :
       store = [j \in 1..n |-> r]
  /\ InitWorkers

NextPublish ==
  \/ Next
  \/ \E w \in Workers, j \in Jobs : YouTubeRouteReadRaises(w, j)
  \/ \E w \in Workers, j \in Jobs : YouTubeRouteWriteRaises(w, j)

SpecPublish == InitPublish /\ [][NextPublish]_vars

\* The status values a worker of stage a passes to update_job_status: in
\* its claim and at the start of its processor, in the except branch, and
\* at the processor's end.
StatusWrites(a) ==
  {processing_status(a), "failed",
   IF a = "post_to_youtube" THEN "completed" ELSE "pending"}

\* NumWorkers workers and one new job routed to the stage of the first;
\* the workers issue status updates for the job, each update in its two
\* store operations.
InitStartedAt ==
  /\ action \in Deployments(NumWorkers)
  /\ \E c \in 1..MaxConfigured : Configured(c)
  /\ \E r \in StageRows(action[1]) : store = <<r>>
  /\ InitWorkers

NextStartedAt ==
  \/ \E w \in Workers, j \in Jobs : \E status \in StatusWrites(action[w]) :
       UpdateBuild(w, j, status)
  \/ \E w \in Workers, j \in Jobs : UpdateExecute(w, j)

SpecStartedAt == InitStartedAt /\ [][NextStartedAt]_vars

\* ---------------------------------------------------- steps of interest

\* Worker w holds job j: it claimed it in this cycle or has it in flight.
Holds(w, j) == j \in active_jobs[w] \/ j \in SeqRange(ready_jobs[w])

\* The step is worker w's claim update on the job at the head of its
\* candidates.
ClaimBy(w) ==
  /\ wpc[w] = "claim"
  /\ all_jobs[w] # <<>>
  /\ Head(all_jobs[w]).dependencies[1]
  /\ all_jobs'[w] # all_jobs[w]

\* The step is worker w's not-ready handling of the job at the head of its
\* candidates.
NotReadyBy(w) ==
  /\ wpc[w] = "claim"
  /\ all_jobs[w] # <<>>
  /\ ~Head(all_jobs[w]).dependencies[1]
  /\ all_jobs'[w] # all_jobs[w]

\* The id of the job at the head of worker w's candidates.
HeadId(w) == Head(all_jobs[w]).id

\* The step starts a thread for job j in worker w.
Starts(w, j) == tpc[w][j] = "idle" /\ tpc'[w][j] # "idle"

\* With the step, process_job returns True for job j in worker w.
ReturnsTrue(w, j) == tpc[w][j] # "ret_true" /\ tpc'[w][j] = "ret_true"

\* The in-progress status of each stage.
InProgress(a) ==
  CASE a = "generate_script" -> "generating_script"
    [] a = "generate_voiceover" -> "creating_voiceover"
    [] a = "create_video" -> "rendering_video"
    [] OTHER -> "uploading"

\* The columns that hold the stages' outputs.
PayloadColumns ==
  {"script", "title", "description", "tags", "voiceover_url", "video_url", "youtube_url"}

\* ---------------------------------------------------------------- claims

\* C1: claim exclusivity.  Two workers of the same stage never hold a claim
\* on the same job at the same time: of the concurrent claim attempts on a
\* pending job one succeeds and the others lose the race.
C1_ClaimExclusivity ==
  \A j \in Jobs : \A v, w \in Workers :
    (v # w /\ action[v] = action[w]) => ~(Holds(v, j) /\ Holds(w, j))

\* C2: the claim is a conditional update.  A claim applied when the stored
\* status is no longer pending reports a lost race, writes nothing to the
\* job, and the job is not started in that cycle.
C2_LostRaceWritesNothing ==
  [][\A w \in Workers :
       (ClaimBy(w) /\ store[HeadId(w)].status # "pending")
         => /\ ~Updated(HeadId(w))
            /\ store' = store
            /\ ~Starts(w, HeadId(w))]_vars

\* C3: a successful claim by the worker of a stage moves the job from
\* pending to that stage's in-progress status; after it the stored status
\* is never still pending.
C3_ClaimSetsInProgress ==
  [][\A w \in Workers :
       (ClaimBy(w) /\ Updated(HeadId(w)))
         => /\ store'[HeadId(w)].status = InProgress(action[w])
            /\ store'[HeadId(w)].status # "pending"]_vars

\* C6: single-step isolation.  For a job submitted for exactly one stage,
\* without the chain sentinel, when that stage's processor returns success
\* both action_needed and original_action are absent, on every path.
C6_SingleStepIsolation ==
  [][\A w \in Workers : \A j \in Jobs :
       (/\ ReturnsTrue(w, j)
        /\ submitted[j].action_needed = action[w]
        /\ submitted[j].original_action = None)
         => /\ store'[j].metadata.action_needed = None
            /\ store'[j].metadata.original_action = None]_vars

\* C9: write-once payload.  Once an output column of a job is non-empty no
\* step of any worker changes its stored value.
C9_WriteOncePayload ==
  [][\A j \in Jobs : \A f \in PayloadColumns :
       ~Falsy(store[j][f]) => store'[j][f] = store[j][f]]_vars

\* The action the worker of the stage after `a` polls for: the string its
\* main() passes to run().
NextStage(a) ==
  CASE a = "generate_script" -> "generate_voiceover"
    [] a = "generate_voiceover" -> "create_video"
    [] OTHER -> "post_to_youtube"

\* C4: chain propagation.  For a job submitted with the auto-chain flag,
\* when the script or the voiceover stage returns success, action_needed
\* names the next stage, original_action is still the chain sentinel and
\* the status is pending.
C4_ChainPropagation ==
  [][\A w \in Workers : \A j \in Jobs :
       (/\ ReturnsTrue(w, j)
        /\ action[w] \in {"generate_script", "generate_voiceover"}
        /\ submitted[j].original_action = "run_all")
         => /\ store'[j].metadata.action_needed = NextStage(action[w])
            /\ store'[j].metadata.original_action = "run_all"
            /\ store'[j].status = "pending"]_vars

\* The step is an update of the store by a stage worker's poll loop or job
\* thread that leaves job j routed to the publish stage.
RoutesToPublish(j) ==
  /\ store'[j] # store[j]
  /\ store'[j].metadata.action_needed = "post_to_youtube"

\* C5 as stated: when the video stage returns success, on any job,
\* action_needed is absent and the status is ready; no worker routes a job
\* to the publish stage and the publish worker claims only jobs that were
\* submitted to it.
C5_PublishGateAlwaysReady ==
  [][\A w \in Workers : \A j \in Jobs :
       /\ (ReturnsTrue(w, j) /\ action[w] = "create_video")
            => /\ store'[j].metadata.action_needed = None
               /\ store'[j].status = "ready"
       /\ RoutesToPublish(j) => submitted[j].action_needed = "post_to_youtube"
       /\ (ClaimBy(w) /\ action[w] = "post_to_youtube" /\ j = HeadId(w))
            => submitted[j].action_needed = "post_to_youtube"]_vars

\* C5, amended: when the video stage returns success action_needed is
\* absent; the status is ready when the job has no published-video
\* reference and pending when it has one.  No worker routes a job to the
\* publish stage unless it was submitted to it, and the publish worker
\* claims only jobs that were submitted to it.
C5_PublishGate ==
  [][\A w \in Workers : \A j \in Jobs :
       /\ (ReturnsTrue(w, j) /\ action[w] = "create_video")
            => /\ store'[j].metadata.action_needed = None
               /\ store'[j].status = IF Falsy(store[j].youtube_url) THEN "ready"
                                     ELSE "pending"
       /\ RoutesToPublish(j) => submitted[j].action_needed = "post_to_youtube"
       /\ (ClaimBy(w) /\ action[w] = "post_to_youtube" /\ j = HeadId(w))
            => submitted[j].action_needed = "post_to_youtube"]_vars

\* The video stage has returned success on an auto-chain job that was
\* published before: the job is pending with no action_needed.
C5_Witness ==
  \E w \in Workers : \E j \in Jobs :
    /\ action[w] = "create_video"
    /\ tpc[w][j] = "ret_true"
    /\ submitted[j].original_action = "run_all"
    /\ ~Falsy(store[j].youtube_url)
    /\ store[j].status = "pending"
    /\ store[j].metadata.action_needed = None

\* The fields each stage requires, in the order its check declares them.
Required(a) ==
  CASE a = "generate_script" -> <<"topic">>
    [] a = "generate_voiceover" -> <<"script">>
    [] a = "create_video" -> <<"script", "voiceover_url">>
    [] OTHER -> <<"title", "description", "video_url">>

\* The required fields of stage a that row lacks, in declaration order,
\* when a field is lacking if it is null or empty.
LackingIfEmpty(a, row) ==
  SelectSeq(Required(a), LAMBDA f : Falsy(row[f]))

\* The same when the description is lacking only if it is null.
LackingButDescription(a, row) ==
  SelectSeq(Required(a),
            LAMBDA f : IF f = "description" THEN row[f] = None ELSE Falsy(row[f]))

C8_MissingListEmpty ==
  [][\A w \in Workers :
       NotReadyBy(w)
         => store'[HeadId(w)].metadata.missing_dependencies
              = LackingIfEmpty(action[w], store[HeadId(w)])]_vars

\* C8, amended: the not-ready handling sets missing_dependencies to exactly
\* the required fields that are absent, in declaration order, where the
\* description is absent only when it is null and every other field when it
\* is null or empty.
C8_MissingList ==
  [][\A w \in Workers :
       NotReadyBy(w)
         => store'[HeadId(w)].metadata.missing_dependencies
              = LackingButDescription(action[w], store[HeadId(w)])]_vars

\* A publish job with an empty description and neither title nor video has
\* been examined: the list names the title and the video, in that order.
C8_Witness ==
  \E j \in Jobs :
    /\ store[j].description = ""
    /\ store[j].metadata.action_needed = "post_to_youtube"
    /\ store[j].metadata.missing_dependencies = <<"title", "video_url">>

\* The threads of worker w that run a stage processor.
Running(w) == {j \in Jobs : tpc[w][j] \notin {"idle"}}

\* C10: capacity bound.  In every state the in-flight set of a worker, and
\* with it the set of its running job threads, has at most
\* max(1, WORKER_MAX_CONCURRENT_JOBS) members, however many jobs are ready.
C10_CapacityBound ==
  \A w \in Workers :
    /\ Cardinality(active_jobs[w]) <= max_concurrent(w)
    /\ Running(w) \subseteq active_jobs[w]

\* A worker is at capacity while another job routed to it is pending.
C10_Witness ==
  \E w \in Workers :
    /\ Cardinality(active_jobs[w]) = max_concurrent(w)
    /\ Running(w) = active_jobs[w]
    /\ \E j \in Jobs \ active_jobs[w] : should_process(store[j], action[w])

\* C11: local de-duplication.  While a job is in a worker's in-flight set
\* that worker issues no claim update for it and starts no thread for it.
C11_LocalDeduplication ==
  [][\A w \in Workers : \A j \in Jobs :
       j \in active_jobs[w]
         => /\ ~(ClaimBy(w) /\ HeadId(w) = j)
            /\ ~Starts(w, j)]_vars

\* With the step, the run of process_job for job j in worker w ends without
\* success: it returns False or raises.
EndsUnsuccessfully(w, j) ==
  /\ tpc[w][j] \notin {"ret_false", "raised"}
  /\ tpc'[w][j] \in {"ret_false", "raised"}

\* C13: stage failure.  Whenever a stage processor's run ends
\* unsuccessfully the job's status is failed, an error message is recorded
\* and action_needed is not advanced.
C13_StageFailure ==
  [][\A w \in Workers : \A j \in Jobs :
       EndsUnsuccessfully(w, j)
         => /\ store'[j].status = "failed"
            /\ ~Falsy(store'[j].error_message)
            /\ store'[j].metadata.action_needed = store[j].metadata.action_needed]_vars

\* C14: terminal statuses are absorbing.  Once a job's status is completed
\* or failed no step of any worker changes it.
C14_TerminalAbsorbing ==
  [][\A j \in Jobs :
       store[j].status \in {"completed", "failed"}
         => store'[j].status = store[j].status]_vars

\* The stage processor of worker w is executing on job j.
Executing(w, j) == tpc[w][j] \notin {"idle", "ret_true", "ret_false", "raised"}

\* C15: stage transitions are sequential.  At no instant do two workers
\* execute a stage processor on the same job, and a worker that changes a
\* job's status, by its claim or from its job thread, is the only one that
\* holds the job.
C15_SequentialStages ==
  [][\A j \in Jobs :
       /\ Cardinality({w \in Workers : Executing(w, j)'}) <= 1
       /\ \A w \in Workers :
            (/\ store'[j].status # store[j].status
             /\ \/ tpc'[w][j] # tpc[w][j]
                \/ ClaimBy(w) /\ HeadId(w) = j)
              => \A v \in Workers \ {w} : ~Holds(v, j)]_vars

\* C19: every job in a worker's in-flight set has that worker's in-progress
\* status in the store.
C19_TrackedJobsAreClaimed ==
  \A w \in Workers : \A j \in active_jobs[w] :
    store[j].status = InProgress(action[w])

\* With the step, the store operation `op` of worker w on job j raises.
RaisesIn(op, w, j) ==
  /\ <<op, w, j>> \notin store_errors
  /\ <<op, w, j>> \in store_errors'

\* C16: a transient store failure is not fatal.  When a store operation of
\* a worker's poll cycle raises (heartbeat, fetch, claim update, not-ready
\* annotation) the worker does not leave its poll loop.
C16_StoreFailureNotFatal ==
  [][\A w \in Workers :
       (\E op \in {"heartbeat", "fetch", "claim", "annotate"} :
          \E j \in Jobs \cup {0} : RaisesIn(op, w, j))
         => /\ Alive(w)'
            /\ wpc'[w] \in {"top", "poll", "claim"}]_vars

\* The ids of the candidates worker w has yet to examine.
CandidateIds(w) == {all_jobs[w][i].id : i \in 1..Len(all_jobs[w])}

\* The ids of the jobs a fetch by worker w returns in the current state.
FetchedIds(w) ==
  LET fetched == get_pending_jobs(config[w] * FetchFactor)
  IN  {fetched[i].id : i \in 1..Len(fetched)}

C18_ExceptionConfined ==
  [][\A w \in Workers : \A j \in Jobs :
       /\ EndsUnsuccessfully(w, j)
            => /\ <<wpc', all_jobs', ready_jobs', available_slots'>>
                    = <<wpc, all_jobs, ready_jobs, available_slots>>
               /\ active_jobs' = active_jobs
               /\ \A i \in Jobs \ {j} : tpc'[w][i] = tpc[w][i]
       /\ (tpc'[w][j] \in {"ret_false", "raised"} /\ Alive(w)' /\ ~LockHeld(w)')
            => (ENABLED Release(w, j))']_vars

\* The recording of a job's failure raised; the job's slot was freed and the
\* worker, which runs one job at a time, has since started another job.
C18_Witness ==
  \E w \in Workers : \E j \in Jobs : \E i \in Jobs \ {j} :
    /\ <<"fail", w, j>> \in store_errors
    /\ config[w] = 1
    /\ j \notin active_jobs[w]
    /\ tpc[w][j] = "idle"
    /\ Executing(w, i)

\* The processor of job j in worker w has finished.
Finished(w, j) == tpc[w][j] \in {"ret_true", "ret_false", "raised"}

\* C12: the graceful drain terminates.  After a stop signal the worker's
\* run loop eventually returns with no job in flight.
C12_DrainTerminates ==
  \A w \in 1..NumWorkers :
    (IF w \in Workers THEN wpc[w] = "drain" ELSE FALSE)
      ~> (IF w \in Workers THEN wpc[w] = "exited" /\ active_jobs[w] = {} ELSE FALSE)

\* C20: release is guaranteed.  A job in a worker's in-flight set whose
\* processor has finished, by returning or by raising, is eventually
\* removed from the set, as long as the worker's process lives.
C20_ReleaseGuaranteed ==
  \A w \in 1..NumWorkers : \A j \in 1..MaxFaultJobs :
    (IF w \in Workers /\ j \in Jobs
       THEN j \in active_jobs[w] /\ Finished(w, j) ELSE FALSE)
      ~> (IF w \in Workers /\ j \in Jobs
            THEN j \notin active_jobs[w] \/ ~Alive(w) ELSE FALSE)

\* The main thread of worker w is in the while loop of run().
InLoop(w) == wpc[w] \in {"start", "top", "heartbeat", "poll", "claim"}

\* The step ends a poll cycle of worker w in which jobs were examined.
EndsCycle(w) == wpc[w] = "claim" /\ wpc'[w] = "top"

\* C21: a long-running stage processor does not block polling.  Whatever
\* the threads of the jobs in flight do, and however long they take, the
\* main thread in its loop always has a next step to take, it is at the top
\* of a poll cycle again and again, and a cycle that claimed a job which is
\* not in flight, with a slot free, starts a job as it ends.
C21_PollingNotBlocked ==
  /\ [](\A w \in Workers : InLoop(w) => ENABLED PollStep(w))
  /\ [][\A w \in Workers :
         (/\ EndsCycle(w)
          /\ available_slots[w] > 0
          /\ \E i \in 1..Len(Prefix(ready_jobs[w], config[w])) :
               ready_jobs[w][i] \notin active_jobs[w])
           => \E j \in Jobs : Starts(w, j) /\ j \in active_jobs'[w]]_vars
  /\ \A w \in 1..NumWorkers :
       []<>(IF w \in Workers THEN wpc[w] = "top" ELSE TRUE)

\* A poll cycle of a worker is at the claim of a job it does not have in
\* flight while the thread of a job it started in an earlier cycle is in
\* its processor.
C21_Witness ==
  \E w \in Workers : \E i \in active_jobs[w] :
    /\ Executing(w, i)
    /\ wpc[w] = "claim"
    /\ all_jobs[w] # <<>>
    /\ HeadId(w) \notin active_jobs[w]
    /\ Head(all_jobs[w]).dependencies[1]
    /\ Tail(all_jobs[w]) = <<>>

\* C22: end-to-end chain liveness.  With one script, one voiceover and one
\* video worker scheduled fairly and no stage processor failing, a job
\* created for the whole chain eventually is ready with all its outputs and
\* no action_needed; and it is never completed.
C22_ChainLiveness ==
  /\ <>ChainDone(1)
  /\ [](store[1].status # "completed")


\* C23: temp-storage cleanup.  When a stage run ends, with success or with
\* failure, neither the job's temporary directory nor the run's own exists
\* in the worker's process.
C23_TempCleanup ==
  \A w \in Workers : \A j \in Jobs :
    Finished(w, j) => temp_dirs[w] \cap {JobDir(j), RenderDir(j)} = {}


\* C24: the last-error message is cleared on a fresh attempt.  A claim
\* update on a job that carries an error message leaves the message empty,
\* and a job whose stage run returns True carries no error message.
C24_ErrorCleared ==
  [][/\ \A w \in Workers :
          (ClaimBy(w) /\ ~Falsy(store[HeadId(w)].error_message))
            => Falsy(store'[HeadId(w)].error_message)
     /\ \A w \in Workers : \A j \in Jobs :
          ReturnsTrue(w, j) => Falsy(store'[j].error_message)]_vars


\* C25: completion time is set once.  Over a job's history completed_at is
\* written at most one time.
C25_CompletedAtOnce == \A j \in Jobs : store[j].completed_at <= 1


\* The row in which everything but the fields stage a requires is blank:
\* no metadata, no other column, the status of a new job.
RequiredOnly(a, row) ==
  [f \in DOMAIN row |->
     CASE f \in SeqRange(Required(a)) -> row[f]
       [] f = "metadata" -> EmptyMetadata
       [] f = "status" -> "pending"
       [] f \in {"started_at", "completed_at"} -> 0
       [] OTHER -> None]

\* The step is a fetch of worker w that found candidates to examine.
Fetches(w) == wpc[w] \in {"top", "poll"} /\ wpc'[w] = "claim"

\* C26: dependency-check determinism.  The verdict (ready, missing) of
\* check_dependencies on a fetched job is the verdict on the job's required
\* fields alone: whatever the metadata, the other columns, the status and
\* the worker's state, two snapshots with the same required fields get the
\* same verdict.
C26_DependencyDeterminism ==
  [][\A w \in Workers :
       Fetches(w)
         => \A c \in SeqRange(all_jobs'[w]) :
              c.dependencies
                = check_dependencies(action[w], RequiredOnly(action[w], store[c.id]))]_vars

\* A job whose metadata carries a sub-status written by a processor has
\* been fetched again and found ready.
C26_Witness ==
  \E w \in Workers :
    /\ wpc[w] = "claim"
    /\ all_jobs[w] # <<>>
    /\ Head(all_jobs[w]).metadata.sub_status # None
    /\ Head(all_jobs[w]).metadata.heartbeat # None
    /\ Head(all_jobs[w]).dependencies[1]


\* The jobs worker w has claimed in the poll cycle that the step ends: those
\* in ready_jobs and the one the step itself claims.
ClaimedInCycle(w) ==
  SeqRange(ready_jobs[w]) \cup (IF ClaimBy(w) THEN {HeadId(w)} ELSE {})

\* C27: no stranded claims.  When a poll cycle ends the worker has claimed
\* no more jobs than it had free slots at the start of the cycle, and every
\* job it claimed is in flight in one of its threads.
C27_NoStrandedClaims ==
  [][\A w \in Workers :
       EndsCycle(w)
         => /\ Cardinality(ClaimedInCycle(w)) <= available_slots[w]
            /\ ClaimedInCycle(w) \subseteq active_jobs'[w]]_vars


\* C28: at most one upload per publish trigger.  For a job submitted once
\* to the publish stage at most one upload succeeds and at most one record
\* is appended to youtube_videos, however many publish workers poll.
C28_SingleUpload ==
  \A j \in Jobs :
    submitted[j].action_needed = "post_to_youtube" => youtube_videos[j] <= 1


\* The routing keys of a row's metadata.
Routing(row) == <<row.metadata.action_needed, row.metadata.original_action>>

\* The step is the heartbeat write of worker w.
HeartbeatWrites(w) == wpc[w] = "heartbeat" /\ wpc'[w] = "poll"

\* The step is a sub-status write of job j's thread in worker w.
SubStatusWrites(w, j) ==
  /\ tpc[w][j] \in {"s_sub1", "s_sub2", "vo_status", "vo_sub", "vid_status", "vid_sub"}
  /\ tpc'[w][j] # tpc[w][j]

\* C29: no lost metadata updates.  A write of the whole metadata from an
\* earlier snapshot (heartbeat, claim, not-ready annotation, sub-status)
\* leaves action_needed and original_action as they are in the store at the
\* time of the write, and a heartbeat write leaves the status as well.
C29_NoLostMetadataUpdate ==
  [][/\ \A w \in Workers :
          HeartbeatWrites(w)
            => /\ Routing(store'[hb[w][1].id]) = Routing(store[hb[w][1].id])
               /\ store'[hb[w][1].id].status = store[hb[w][1].id].status
     /\ \A w \in Workers :
          (ClaimBy(w) \/ NotReadyBy(w))
            => Routing(store'[HeadId(w)]) = Routing(store[HeadId(w)])
     /\ \A w \in Workers : \A j \in Jobs :
          SubStatusWrites(w, j) => Routing(store'[j]) = Routing(store[j])]_vars


\* The newest job of the store.
Newest == Len(store)

\* C30: no starvation by the fetch window.  Under fair scheduling the
\* worker eventually claims the job that is routed to its stage and ready,
\* however many older pending jobs without a routing the store holds.
C30_NoWindowStarvation == <>(\E w \in Workers : Holds(w, Newest))


C31_OneRunPerTrigger ==
  \A w \in 1..NumWorkers : \A j \in 1..MaxFaultJobs :
    <>[](IF w \in Workers /\ j \in Jobs
           THEN tpc[w][j] # FirstStep(action[w])
           ELSE TRUE)


\* C33: a completed job is published.  A job whose status is completed has
\* its youtube_url (and youtube_video_id, written with it) populated, and
\* no step of a publish run takes the job from completed, as the run's
\* recording of the upload left it, to failed.  With one publish worker the
\* completed status a run finds after its own "uploading" is its own.
C33_CompletedIsPublished ==
  /\ [](\A j \in Jobs :
          store[j].status = "completed" => ~Falsy(store[j].youtube_url))
  /\ [][\A w \in Workers : \A j \in Jobs :
          /\ action[w] = "post_to_youtube"
          /\ tpc'[w][j] # tpc[w][j]
          /\ store[j].status = "completed"
          => store'[j].status # "failed"]_vars


\* C34: start time is set once.  A job whose status is not pending has a
\* started_at, and no update changes a started_at that is set, also when
\* the status updates of two workers for the job overlap.
C34_StartedAtOnce ==
  /\ [](\A j \in Jobs : store[j].status # "pending" => store[j].started_at > 0)
  /\ [][\A j \in Jobs :
          store[j].started_at > 0 => store'[j].started_at = store[j].started_at]_vars

====
